---- MODULE Spec2Model ----
(***************************************************************************)
(* Model of the movie-pitch backend (src/main.py): the WheelInput field    *)
(* validator, the slowapi "10/minute" limiter on POST /generate-pitch, the *)
(* request handler generate_pitch with its call of pitch_agent, and        *)
(* GET /health.                                                            *)
(*                                                                         *)
(* A string is a sequence of characters, so that len() and str.strip() are *)
(* computed on the characters.  A character is the one-character string    *)
(* that holds it; a character that a TLA+ string cannot hold is written as *)
(* its escape "\uXXXX", one element of the sequence all the same.          *)
(***************************************************************************)
EXTENDS Integers, Sequences, FiniteSets, TLC

VARIABLES
    now,      \* time.time(), in whole seconds
    limiter,  \* slowapi Limiter's in-memory storage: per key, hit count and expiry
    slots,    \* the requests in flight on the event loop, one record per connection
    running,  \* the connection whose handler holds the event loop (0: none); a
              \* handler keeps the loop from one await to the next
    window,   \* history: per identity, the admission times of the trailing W seconds
    burst,    \* history: per identity, the burst in progress and the last decision
    vin,      \* the raw field value handed to validate_list (validator harness)
    vout,     \* what validate_list made of it
    health    \* the last response of GET /health

vars == <<now, limiter, slots, running, window, burst, vin, vout, health>>

(***************************************************************************)
(* Bounds of the model.                                                    *)
(***************************************************************************)
MaxFill == 5        \* leading well-formed elements of an enumerated raw list
TickStep == 30      \* seconds by which the clock advances in one step
MaxTime == 60       \* the clock stops advancing here
MaxHitsA == 11      \* hits of client "10.0.0.1" counted in one window of the limiter
MaxHitsB == 1       \* hits of client "10.0.0.2" counted in one window of the limiter
MaxPromptItems == 2 \* elements of one list of an enumerated validated input
MaxRawLen == 2      \* elements of an enumerated JSON array of any element types

(***************************************************************************)
(* Section 2 of main.py: the data models and their validation.             *)
(***************************************************************************)
MAX_LIST_LENGTH == 5
MAX_STRING_LENGTH == 100

\* The characters that str.strip() removes: those for which str.isspace()
\* holds (U+0009-U+000D, U+001C-U+0020, U+0085, U+00A0, U+1680,
\* U+2000-U+200A, U+2028, U+2029, U+202F, U+205F, U+3000).
Whitespace ==
    {"\t", "\n", "\\u000b", "\f", "\r",
     "\\u001c", "\\u001d", "\\u001e", "\\u001f", " ",
     "\\u0085", "\\u00a0", "\\u1680",
     "\\u2000", "\\u2001", "\\u2002", "\\u2003", "\\u2004", "\\u2005",
     "\\u2006", "\\u2007", "\\u2008", "\\u2009", "\\u200a",
     "\\u2028", "\\u2029", "\\u202f", "\\u205f", "\\u3000"}

Min(S) == CHOOSE x \in S : \A y \in S : x <= y
Max(S) == CHOOSE x \in S : \A y \in S : x >= y

\* A strip() that takes off one whitespace character at each end and no more.
strip_one_each_end(item) ==
    LET from == IF Len(item) >= 1 /\ item[1] \in Whitespace THEN 2 ELSE 1
        to == IF Len(item) >= 2 /\ item[Len(item)] \in Whitespace
              THEN Len(item) - 1 ELSE Len(item)
    IN  SubSeq(item, from, to)

\* str.strip(): the string without its leading and trailing whitespace.
strip(item) ==
    LET keep == {i \in 1..Len(item) : item[i] \notin Whitespace}
    IN  IF keep = {} THEN <<>> ELSE SubSeq(item, Min(keep), Max(keep))

\* What a validator call comes to: the returned list, or the ValueError raised.
Returned(value) == [ok |-> TRUE, value |-> value, error |-> ""]
Raised(msg) == [ok |-> FALSE, value |-> <<>>, error |-> msg]

ErrTooManyItems == "List cannot have more than 5 items"
ErrEmptyList == "List cannot be empty"
ErrItemTooLong == "Each item must be 100 characters or less"
ErrEmptyItem == "Items cannot be empty or whitespace only"

\* The for loop of validate_list from element i on: the first element that
\* raises decides, and the length test comes before the whitespace test.
RECURSIVE CheckItems(_, _)
CheckItems(v, i) ==
    IF i > Len(v) THEN ""
    ELSE IF Len(v[i]) > MAX_STRING_LENGTH THEN ErrItemTooLong
    ELSE IF strip(v[i]) = <<>> THEN ErrEmptyItem
    ELSE CheckItems(v, i + 1)

\* validate_list without its test for the empty list.
validate_list_no_empty_test(v) ==
    IF Len(v) > MAX_LIST_LENGTH THEN Raised(ErrTooManyItems)
    ELSE IF CheckItems(v, 1) # "" THEN Raised(CheckItems(v, 1))
    ELSE Returned([i \in 1..Len(v) |-> strip(v[i])])

\* validate_list with line 46 as "return v": the elements are checked but
\* handed on as they came.
validate_list_untrimmed(v) ==
    IF Len(v) > MAX_LIST_LENGTH THEN Raised(ErrTooManyItems)
    ELSE IF Len(v) = 0 THEN Raised(ErrEmptyList)
    ELSE IF CheckItems(v, 1) # "" THEN Raised(CheckItems(v, 1))
    ELSE Returned(v)

validate_list(v) ==
    IF Len(v) > MAX_LIST_LENGTH THEN Raised(ErrTooManyItems)
    ELSE IF Len(v) = 0 THEN Raised(ErrEmptyList)
    ELSE IF CheckItems(v, 1) # "" THEN Raised(CheckItems(v, 1))
    ELSE Returned([i \in 1..Len(v) |-> strip(v[i])])

FieldNames == <<"characters", "locations", "genres", "creatives">>

NoInput == [characters |-> <<>>, locations |-> <<>>, genres |-> <<>>, creatives |-> <<>>]

\* WheelInput(**body): every field goes through validate_list; pydantic collects
\* the ValueErrors of all fields and builds the model only when there is none.
WheelInput(body) ==
    LET res == [f \in DOMAIN body |-> validate_list(body[f])]
        errs == {<<FieldNames[k], res[FieldNames[k]].error>> :
                    k \in {j \in 1..Len(FieldNames) : ~res[FieldNames[j]].ok}}
    IN  IF errs = {}
        THEN [ok |-> TRUE, value |-> [f \in DOMAIN body |-> res[f].value], errors |-> {}]
        ELSE [ok |-> FALSE, value |-> NoInput, errors |-> errs]

(***************************************************************************)
(* Section 3 of main.py: the agent.  pitch_agent.run(prompt) either        *)
(* returns a result whose output is a MoviePitch (output_type=MoviePitch)  *)
(* or raises.                                                              *)
(***************************************************************************)
NoPitch == [title |-> "", tagline |-> "", pitch |-> ""]

MoviePitch == {[title |-> "Red Dust", tagline |-> "Nobody leaves Mars.", pitch |-> "A detective."]}

\* str(e) of what pitch_agent.run can raise: an exception of the provider, a
\* timeout, malformed output, output that does not match MoviePitch.
AgentErrors ==
    {"provider error: 401 invalid api key", "request timed out",
     "malformed output", "output does not match MoviePitch"}

(***************************************************************************)
(* Section 4 of main.py: limiter = Limiter(key_func=get_remote_address),   *)
(* used as @limiter.limit("10/minute").  No strategy and no storage are    *)
(* given, so slowapi counts hits in memory in a fixed window: per key a    *)
(* counter and the time at which the counter expires.                      *)
(***************************************************************************)
LIMIT_AMOUNT == 10      \* "10/minute"
LIMIT_SECONDS == 60     \* "10/minute"

ClientA == "10.0.0.1"
ClientB == "10.0.0.2"
Clients == {ClientA, ClientB}

\* get_remote_address behind a reverse proxy: every connection comes from it.
get_remote_address_proxy(client) == ClientA

\* slowapi.util.get_remote_address: the host of the connection.
get_remote_address(client) == IF client = "" THEN "127.0.0.1" ELSE client

Keys == {get_remote_address(c) : c \in Clients}

EmptyStorage == [storage |-> [k \in Keys |-> 0], expirations |-> [k \in Keys |-> 0]]

\* A key taken for expired only once its expiry has passed.
expired_late(lim, key, t) == lim.expirations[key] < t

\* MemoryStorage: a key is expired from the time of its expiry on (a key that
\* is not there has expiry 0).
expired(lim, key, t) == lim.expirations[key] <= t

\* MemoryStorage.get: a key whose expiry has come is dropped before it is read.
storage_get(lim, key, t) ==
    IF expired(lim, key, t)
    THEN [storage |-> [lim.storage EXCEPT ![key] = 0],
          expirations |-> [lim.expirations EXCEPT ![key] = 0]]
    ELSE lim

\* MemoryStorage's timer: every expired key is dropped.
expire_events(lim, t) ==
    [storage |-> [k \in DOMAIN lim.storage |->
                    IF expired(lim, k, t) THEN 0 ELSE lim.storage[k]],
     expirations |-> [k \in DOMAIN lim.storage |->
                    IF expired(lim, k, t) THEN 0 ELSE lim.expirations[k]]]

\* MemoryStorage.incr: count the hit; the first hit of a key sets its expiry.
storage_incr(lim, key, expiry, t) ==
    LET cur == storage_get(lim, key, t)
        n == cur.storage[key] + 1
    IN  [storage |-> [cur.storage EXCEPT ![key] = n],
         expirations |-> IF n = 1 THEN [cur.expirations EXCEPT ![key] = t + expiry]
                                  ELSE cur.expirations]

\* FixedWindowRateLimiter.hit: every hit is counted, and it passes while the
\* count is within the amount.
hit(lim, key, t) ==
    LET after == storage_incr(lim, key, LIMIT_SECONDS, t)
    IN  [limiter |-> after, ok |-> after.storage[key] <= LIMIT_AMOUNT]

RateLimitDetail == "Rate limit exceeded: 10 per 1 minute"

(***************************************************************************)
(* Section 5 of main.py: the endpoint.                                     *)
(***************************************************************************)
\* sep.join(items)
RECURSIVE join(_, _)
join(sep, items) ==
    IF items = <<>> THEN <<>>
    ELSE IF Len(items) = 1 THEN items[1]
    ELSE items[1] \o sep \o join(sep, Tail(items))

\* A fixed fragment of the f-string, kept as one element of the prompt.
Lit(text) == <<text>>

CommaSpace == <<",", " ">>

\* Lines 95-102 with the Characters line written before the Genres line.
PromptCharactersFirst(input_data) ==
    LET char_str == join(CommaSpace, input_data.characters)
        loc_str == join(CommaSpace, input_data.locations)
        genre_str == join(CommaSpace, input_data.genres)
        creative_str == join(CommaSpace, input_data.creatives)
    IN  Lit("Create a movie pitch based on this specific combination:\n- Featuring these Characters: ")
        \o char_str
        \o Lit("\n- Mix these Genres: ") \o genre_str
        \o Lit("\n- Set in these Locations: ") \o loc_str
        \o Lit("\n- In the style of: ") \o creative_str
        \o Lit("\n\nEnsure the plot makes sense despite the chaotic mix.")

\* Lines 89-102: the four joined strings and the prompt.
Prompt(input_data) ==
    LET char_str == join(CommaSpace, input_data.characters)
        loc_str == join(CommaSpace, input_data.locations)
        genre_str == join(CommaSpace, input_data.genres)
        creative_str == join(CommaSpace, input_data.creatives)
    IN  Lit("Create a movie pitch based on this specific combination:\n- Mix these Genres: ")
        \o genre_str
        \o Lit("\n- Featuring these Characters: ") \o char_str
        \o Lit("\n- Set in these Locations: ") \o loc_str
        \o Lit("\n- In the style of: ") \o creative_str
        \o Lit("\n\nEnsure the plot makes sense despite the chaotic mix.")

\* Line 112 with the exception passed on: detail=str(e).
GenerationFailureDetailLeak(e) == e

\* Line 112: the detail of the HTTPException raised for the exception e.
GenerationFailureDetail(e) == "AI generation failed."

(***************************************************************************)
(* The requests the clients send.                                          *)
(***************************************************************************)
Rep(c, n) == [i \in 1..n |-> c]

GoodItem == <<" ", "A", "l", " ">>

ValidBody ==
    [characters |-> <<GoodItem>>,
     locations |-> <<<<"M", "a", "r", "s">>>>,
     genres |-> <<<<"N", "o", "i", "r", "\r">>, <<"\\u00a0", "S", "F">>>>,
     creatives |-> <<<<"W", "e", "s", " ", "A">>>>]

Bodies ==
    {ValidBody,
     [ValidBody EXCEPT !.genres = <<>>],
     [ValidBody EXCEPT !.locations = Rep(GoodItem, MAX_LIST_LENGTH + 1)],
     [ValidBody EXCEPT !.characters = <<GoodItem, Rep("a", MAX_STRING_LENGTH + 1)>>],
     [ValidBody EXCEPT !.creatives = <<GoodItem, <<"\t", "\\u3000">>>>]}

(***************************************************************************)
(* The state of one connection.  pc is where its request stands.           *)
(***************************************************************************)
\* The connections that can be open at the same time.
Slots == {1, 2}

IdleSlot ==
    [pc |-> "Idle", client |-> "", body |-> NoInput, input_data |-> NoInput,
     prompt |-> <<>>, checked |-> FALSE, calls |-> 0, output |-> NoPitch,
     logged |-> "", status |-> 0, detail |-> "", errors |-> {}, content |-> NoPitch]

\* start: when the first request of the burst was decided (-1: no burst); n,
\* admitted: the requests of the burst decided and admitted; fromEmpty: there
\* was no admission in the LIMIT_SECONDS before the burst; last: the latest
\* decision; afterFull: the burst before this one had a request rejected.
NoBurst ==
    [start |-> -1, n |-> 0, admitted |-> 0, fromEmpty |-> FALSE, last |-> "none",
     afterFull |-> FALSE]

Terminal == {"Responded", "Errored"}

MaxHits(c) == IF c = ClientA THEN MaxHitsA ELSE MaxHitsB

\* Requests of client c that may still come to the limiter.
Pending(c) ==
    Cardinality({s \in Slots : slots[s].client = c /\ slots[s].pc \in {"Received", "Validated"}})

NotRun == [ok |-> FALSE, value |-> <<>>, error |-> "not run"]

\* No GET /health has been answered yet. limited: the caller's quota on
\* POST /generate-pitch was used up when it called (history).
NoHealth == [status |-> 0, body |-> [status |-> ""], client |-> "", limited |-> FALSE]

Init ==
    /\ now = 0
    /\ limiter = EmptyStorage
    /\ slots = [s \in Slots |-> IdleSlot]
    /\ running = 0
    /\ window = [c \in Clients |-> <<>>]
    /\ burst = [c \in Clients |-> NoBurst]
    /\ vin = <<>>
    /\ vout = NotRun
    /\ health = NoHealth

\* A client opens a connection and sends POST /generate-pitch.
Arrive(s, c) ==
    /\ slots[s].pc = "Idle"
    /\ \A r \in Slots : r < s => slots[r].pc # "Idle"
    /\ limiter.storage[get_remote_address(c)] + Pending(c) < MaxHits(c)
    /\ slots' = [slots EXCEPT ![s] = [IdleSlot EXCEPT !.pc = "Received", !.client = c]]
    /\ UNCHANGED <<now, limiter, running, window, burst, vin, vout, health>>

\* FastAPI reads the body b and builds the parameters of the endpoint before it
\* calls it: the body becomes a WheelInput, or the request is answered 422 with
\* the errors.
Validate(s, b) ==
    /\ slots[s].pc = "Received"
    /\ running = 0
    /\ LET res == WheelInput(b)
       IN  IF res.ok
           THEN /\ slots' = [slots EXCEPT ![s].pc = "Validated", ![s].body = b,
                                          ![s].input_data = res.value]
                /\ running' = s
           ELSE /\ slots' = [slots EXCEPT ![s].pc = "Errored", ![s].body = b,
                                          ![s].status = 422, ![s].errors = res.errors]
                /\ running' = 0
    /\ UNCHANGED <<now, limiter, window, burst, vin, vout, health>>

\* History of the decision taken for client c at time now.  A burst lasts
\* LIMIT_SECONDS from its first request; the next request starts a new one.
Decided(c, ok) ==
    LET b == burst[c]
        fresh == b.start < 0 \/ now >= b.start + LIMIT_SECONDS
    IN  /\ window' = [window EXCEPT ![c] = IF ok THEN Append(@, now) ELSE @]
        /\ burst' = [burst EXCEPT ![c] =
                [start |-> IF fresh THEN now ELSE b.start,
                 n |-> IF fresh THEN 1 ELSE b.n + 1,
                 admitted |-> (IF fresh THEN 0 ELSE b.admitted) + (IF ok THEN 1 ELSE 0),
                 fromEmpty |-> IF fresh THEN window[c] = <<>> ELSE b.fromEmpty,
                 last |-> IF ok THEN "admitted" ELSE "rejected",
                 afterFull |-> IF b.start < 0 THEN b.afterFull
                               ELSE IF fresh THEN b.n > LIMIT_AMOUNT ELSE b.afterFull]]

\* The wrapper of @limiter.limit("10/minute") runs when the endpoint is called:
\* one hit on the key of the client, and RateLimitExceeded (429) when it fails.
RateCheck(s) ==
    /\ slots[s].pc = "Validated"
    /\ running = s
    /\ LET h == hit(limiter, get_remote_address(slots[s].client), now)
       IN  /\ limiter' = h.limiter
           /\ Decided(slots[s].client, h.ok)
           /\ IF h.ok
              THEN /\ slots' = [slots EXCEPT ![s].pc = "RateChecked", ![s].checked = TRUE]
                   /\ running' = s
              ELSE /\ slots' = [slots EXCEPT ![s].pc = "Errored", ![s].checked = TRUE,
                                             ![s].status = 429, ![s].detail = RateLimitDetail]
                   /\ running' = 0
    /\ UNCHANGED <<now, vin, vout, health>>

\* Lines 89-102 of generate_pitch.
BuildPrompt(s) ==
    /\ slots[s].pc = "RateChecked"
    /\ running = s
    /\ slots' = [slots EXCEPT ![s].pc = "PromptBuilt", ![s].prompt = Prompt(slots[s].input_data)]
    /\ UNCHANGED <<now, limiter, running, window, burst, vin, vout, health>>

\* Line 106 with a call that blocks: the handler keeps the event loop until
\* pitch_agent has answered.
CallAgentBlocking(s) ==
    /\ slots[s].pc = "PromptBuilt"
    /\ running = s
    /\ slots' = [slots EXCEPT ![s].pc = "Generating", ![s].calls = @ + 1]
    /\ UNCHANGED <<now, limiter, running, window, burst, vin, vout, health>>

\* Line 106: pitch_agent.run(prompt) is called and the handler is suspended.
CallAgent(s) ==
    /\ slots[s].pc = "PromptBuilt"
    /\ running = s
    /\ slots' = [slots EXCEPT ![s].pc = "Generating", ![s].calls = @ + 1]
    /\ running' = 0
    /\ UNCHANGED <<now, limiter, window, burst, vin, vout, health>>

\* Line 106: the call returns a result.
AgentReturn(s, p) ==
    /\ slots[s].pc = "Generating"
    /\ running = 0
    /\ slots' = [slots EXCEPT ![s].pc = "Generated", ![s].output = p]
    /\ running' = s
    /\ UNCHANGED <<now, limiter, window, burst, vin, vout, health>>

\* AgentFail with a retry: the handler calls pitch_agent.run once more.
AgentFailRetry(s, e) ==
    /\ slots[s].pc = "Generating"
    /\ running = 0
    /\ slots' = [slots EXCEPT ![s].pc = IF @ = "Generating" /\ slots[s].calls < 2
                                        THEN "PromptBuilt" ELSE "Errored",
                              ![s].logged = e,
                              ![s].status = IF slots[s].calls < 2 THEN 0 ELSE 500]
    /\ running' = IF slots[s].calls < 2 THEN s ELSE 0
    /\ UNCHANGED <<now, limiter, window, burst, vin, vout, health>>

\* Lines 110-112: the call raises e; the handler logs it and raises
\* HTTPException(500).
AgentFail(s, e) ==
    /\ slots[s].pc = "Generating"
    /\ running = 0
    /\ slots' = [slots EXCEPT ![s].pc = "Errored", ![s].logged = e, ![s].status = 500,
                              ![s].detail = GenerationFailureDetail(e)]
    /\ UNCHANGED <<now, limiter, running, window, burst, vin, vout, health>>

\* Lines 107-108: return result.output, sent as the 200 response.
Respond(s) ==
    /\ slots[s].pc = "Generated"
    /\ running = s
    /\ slots' = [slots EXCEPT ![s].pc = "Responded", ![s].status = 200,
                              ![s].content = slots[s].output]
    /\ running' = 0
    /\ UNCHANGED <<now, limiter, window, burst, vin, vout, health>>

\* The response is sent and the connection is gone.
Close(s) ==
    /\ slots[s].pc \in Terminal
    /\ slots' = [slots EXCEPT ![s] = IdleSlot]
    /\ UNCHANGED <<now, limiter, running, window, burst, vin, vout, health>>

\* Time passes while no handler holds the event loop; the storage's timer
\* drops the keys that have expired.
Tick ==
    /\ running = 0
    /\ now + TickStep <= MaxTime
    /\ now' = now + TickStep
    /\ limiter' = expire_events(limiter, now')
    /\ window' = [c \in Clients |->
                    SelectSeq(window[c], LAMBDA t : t > now' - LIMIT_SECONDS)]
    /\ burst' = [c \in Clients |->
                    IF burst[c].start >= 0 /\ now' >= burst[c].start + LIMIT_SECONDS
                    THEN [NoBurst EXCEPT !.afterFull = burst[c].n > LIMIT_AMOUNT]
                    ELSE burst[c]]
    /\ UNCHANGED <<slots, running, vin, vout, health>>

Next ==
    \/ \E s \in Slots, c \in Clients : Arrive(s, c)
    \/ \E s \in Slots, b \in Bodies : Validate(s, b)
    \/ \E s \in Slots : RateCheck(s)
    \/ \E s \in Slots : BuildPrompt(s)
    \/ \E s \in Slots : CallAgent(s)
    \/ \E s \in Slots, p \in MoviePitch : AgentReturn(s, p)
    \/ \E s \in Slots, e \in AgentErrors : AgentFail(s, e)
    \/ \E s \in Slots : Respond(s)
    \/ \E s \in Slots : Close(s)
    \/ Tick

Spec == Init /\ [][Next]_vars

(***************************************************************************)
(* GET /health (lines 114-117), served on the same event loop.             *)
(***************************************************************************)
\* Line 117: the dict that health_check returns.
health_check == [status |-> "healthy"]

\* The caller's quota on POST /generate-pitch is used up at the time t.
QuotaUsedUp(c, t) ==
    storage_get(limiter, get_remote_address(c), t).storage[get_remote_address(c)] >= LIMIT_AMOUNT

\* Lines 114-117 with @limiter.limit("10/minute") put on health_check as well.
HealthLimited(c) ==
    LET res == hit(limiter, get_remote_address(c), now)
    IN  /\ running = 0
        /\ limiter' = res.limiter
        /\ health' = [status |-> IF res.ok THEN 200 ELSE 429,
                      body |-> IF res.ok THEN health_check ELSE [status |-> RateLimitDetail],
                      client |-> c, limited |-> QuotaUsedUp(c, now)]
        /\ UNCHANGED <<now, slots, running, window, burst, vin, vout>>

\* Client c calls GET /health: the handler has no await and no limit, and
\* FastAPI answers 200 with the returned dict.
Health(c) ==
    /\ running = 0
    /\ health' = [status |-> 200, body |-> health_check, client |-> c,
                  limited |-> QuotaUsedUp(c, now)]
    /\ UNCHANGED <<now, limiter, slots, running, window, burst, vin, vout>>

\* Both endpoints.
NextHealth ==
    \/ Next
    \/ \E c \in Clients : Health(c)

SpecHealth == Init /\ [][NextHealth]_vars

(***************************************************************************)
(* The validator on its own: validate_list applied to one raw field value  *)
(* out of an enumeration of lists of strings.                              *)
(***************************************************************************)
PadLens == {0, 1, MAX_STRING_LENGTH}

Cores ==
    {<<>>, <<"a">>, <<"a", " ", "b">>,
     Rep("a", MAX_STRING_LENGTH), Rep("a", MAX_STRING_LENGTH + 1)}

\* Strings with and without surrounding whitespace, around the length limit.
Items == {Rep(" ", l) \o core \o Rep("\r", r) : l \in PadLens, r \in PadLens, core \in Cores}

Tails == {<<>>} \cup {<<x>> : x \in Items} \cup {<<x, y>> : x \in Items, y \in Items}

\* Up to MaxFill well-formed elements, then up to two arbitrary ones.
FieldInputs == {Rep(GoodItem, n) \o t : n \in 0..MaxFill, t \in Tails}

InitValidate ==
    /\ now = 0
    /\ limiter = EmptyStorage
    /\ slots = [s \in Slots |-> IdleSlot]
    /\ running = 0
    /\ window = [c \in Clients |-> <<>>]
    /\ burst = [c \in Clients |-> NoBurst]
    /\ vin \in FieldInputs
    /\ vout = NotRun
    /\ health = NoHealth

RunValidateList ==
    /\ vout = NotRun
    /\ vout' = validate_list(vin)
    /\ UNCHANGED <<now, limiter, slots, running, window, burst, vin, health>>

\* The list that validate_list returned is handed to validate_list again, as
\* when a WheelInput is built from the fields of a WheelInput.
RunValidateListAgain ==
    /\ vout # NotRun
    /\ vout.ok
    /\ "again" \notin DOMAIN vout
    /\ vout' = [ok |-> vout.ok, value |-> vout.value, error |-> vout.error,
                again |-> validate_list(vout.value)]
    /\ UNCHANGED <<now, limiter, slots, running, window, burst, vin, health>>

NextValidate == RunValidateList \/ RunValidateListAgain

SpecValidate == InitValidate /\ [][NextValidate]_vars

(***************************************************************************)
(* The validator on what a JSON body can hold.  validate_list is a "before" *)
(* validator: it is handed the raw value of the field, whatever its type,  *)
(* and lines 37-46 run on it with Python's len(), truth value, iteration   *)
(* and attribute lookup.  A raw value is a record: t is its JSON type, s    *)
(* the characters of a string, a the elements of an array or the keys of   *)
(* an object, n the number.                                                *)
(***************************************************************************)
JMissing == [t |-> "missing", s |-> <<>>, a |-> <<>>, n |-> 0]
JNull == [t |-> "null", s |-> <<>>, a |-> <<>>, n |-> 0]
JNumber(n) == [t |-> "number", s |-> <<>>, a |-> <<>>, n |-> n]
JString(chars) == [t |-> "string", s |-> chars, a |-> <<>>, n |-> 0]
JArray(elems) == [t |-> "array", s |-> <<>>, a |-> elems, n |-> 0]
JObject(keys) == [t |-> "object", s |-> <<>>, a |-> keys, n |-> 0]

\* The types that have len(): str, list and dict.
Sized == {"string", "array", "object"}

\* len(j) of a str, a list or a dict.
py_len(j) == IF j.t = "string" THEN Len(j.s) ELSE Len(j.a)

\* iter(j): the characters of a str, the elements of a list, the keys of a dict.
py_iter(j) ==
    IF j.t = "string" THEN [i \in 1..Len(j.s) |-> JString(<<j.s[i]>>)]
    ELSE j.a

NoException == [exc |-> "", msg |-> "", value |-> <<>>]
Exception(exc, msg) == [exc |-> exc, msg |-> msg, value |-> <<>>]

\* Lines 41-45 from element i on: len(item) raises TypeError on None and on
\* a number, item.strip() raises AttributeError on a list and on a dict.
RECURSIVE CheckRawItems(_, _)
CheckRawItems(items, i) ==
    IF i > Len(items) THEN NoException
    ELSE IF items[i].t \notin Sized THEN Exception("TypeError", "has no len()")
    ELSE IF py_len(items[i]) > MAX_STRING_LENGTH THEN Exception("ValueError", ErrItemTooLong)
    ELSE IF items[i].t # "string" THEN Exception("AttributeError", "has no attribute 'strip'")
    ELSE IF strip(items[i].s) = <<>> THEN Exception("ValueError", ErrEmptyItem)
    ELSE CheckRawItems(items, i + 1)

\* Lines 37-46 on the raw value j: the exception raised, or the list returned.
validate_list_raw(j) ==
    IF j.t \notin Sized THEN Exception("TypeError", "has no len()")
    ELSE IF py_len(j) > MAX_LIST_LENGTH THEN Exception("ValueError", ErrTooManyItems)
    ELSE IF py_len(j) = 0 THEN Exception("ValueError", ErrEmptyList)
    ELSE IF CheckRawItems(py_iter(j), 1).exc # "" THEN CheckRawItems(py_iter(j), 1)
    ELSE [exc |-> "", msg |-> "",
          value |-> [i \in 1..py_len(j) |-> strip(py_iter(j)[i].s)]]

\* What becomes of a request whose field holds j: pydantic reports a missing
\* field itself and turns a ValueError of the validator into a validation
\* error, which FastAPI answers with 422; any other exception of the validator
\* passes through pydantic and FastAPI and is answered 500 by the server; a
\* returned list of str is accepted (status 0: no response from validation).
FieldOutcome(j) ==
    LET res == validate_list_raw(j)
    IN  IF j.t = "missing"
        THEN [ok |-> FALSE, value |-> <<>>, error |-> "Field required", status |-> 422]
        ELSE IF res.exc = "ValueError"
        THEN [ok |-> FALSE, value |-> <<>>, error |-> res.msg, status |-> 422]
        ELSE IF res.exc # ""
        THEN [ok |-> FALSE, value |-> <<>>, error |-> "Internal Server Error", status |-> 500]
        ELSE [ok |-> TRUE, value |-> res.value, error |-> "", status |-> 0]

RawStrings ==
    {JString(<<>>), JString(<<"a", "b", "c">>), JString(<<"a", " ", "b">>),
     JString(Rep("a", MAX_LIST_LENGTH + 1))}

RawElems ==
    {JNull, JNumber(7), JString(<<"A">>), JString(<<"\f", "A", "\\u000b">>), JString(<<>>),
     JString(Rep("a", MAX_STRING_LENGTH + 1)),
     JArray(<<>>), JArray(<<JString(<<"A">>)>>)}

RawValues ==
    {JMissing, JNull, JNumber(0), JNumber(7), JObject(<<>>), JObject(<<JString(<<"k">>)>>)}
    \cup RawStrings
    \cup {JArray(e) : e \in UNION {[1..n -> RawElems] : n \in 0..MaxRawLen}}
    \cup {JArray(Rep(JString(<<"A">>), MAX_LIST_LENGTH + 1))}

InitRaw ==
    /\ now = 0
    /\ limiter = EmptyStorage
    /\ slots = [s \in Slots |-> IdleSlot]
    /\ running = 0
    /\ window = [c \in Clients |-> <<>>]
    /\ burst = [c \in Clients |-> NoBurst]
    /\ vin \in RawValues
    /\ vout = NotRun
    /\ health = NoHealth

\* FastAPI builds the WheelInput of a body whose field holds vin.
RunRawValidation ==
    /\ vout = NotRun
    /\ vout' = FieldOutcome(vin)
    /\ UNCHANGED <<now, limiter, slots, running, window, burst, vin, health>>

NextRaw == RunRawValidation

SpecRaw == InitRaw /\ [][NextRaw]_vars

(***************************************************************************)
(* The prompt on its own: lines 89-102 applied, twice and at different     *)
(* times, to one validated WheelInput out of an enumeration.               *)
(***************************************************************************)
PromptItems == {<<"A">>, <<"\n", "b", ",", " ", "c", "\\u0085">>}

PromptLists == UNION {[1..n -> PromptItems] : n \in 1..MaxPromptItems}

PromptBodies ==
    [characters : PromptLists, locations : PromptLists,
     genres : PromptLists, creatives : PromptLists]

InitPrompt ==
    /\ now = 0
    /\ limiter = EmptyStorage
    /\ slots = [s \in Slots |-> IdleSlot]
    /\ running = 0
    /\ window = [c \in Clients |-> <<>>]
    /\ burst = [c \in Clients |-> NoBurst]
    /\ vin \in {WheelInput(b).value : b \in PromptBodies}
    /\ vout = <<>>
    /\ health = NoHealth

\* One more request with the input vin has its prompt built.
ComposePrompt ==
    /\ Len(vout) < 2
    /\ vout' = Append(vout, Prompt(vin))
    /\ UNCHANGED <<now, limiter, slots, running, window, burst, vin, health>>

NextPrompt == ComposePrompt \/ Tick

SpecPrompt == InitPrompt /\ [][NextPrompt]_vars

(***************************************************************************)
(* The claims.                                                             *)
(***************************************************************************)
InFlight(s) == slots[s].pc \notin {"Idle", "Received"}

\* C1: the rate-limit decision is the first gate of every POST /generate-pitch:
\* no request is validated, or answered 422, before its rate-limit check has
\* been made.
C1_RateLimitIsFirstGate ==
    \A s \in Slots :
        slots[s].pc = "Validated" \/ slots[s].status = 422 => slots[s].checked

\* What C2 asks of a raw list: 1 to 5 elements, each of trimmed length 1 to 100.
WithinTrimmedBounds(v) ==
    /\ Len(v) \in 1..MAX_LIST_LENGTH
    /\ \A i \in 1..Len(v) : Len(strip(v[i])) \in 1..MAX_STRING_LENGTH

\* C2: a list of 1 to 5 elements whose trimmed lengths are between 1 and 100 is
\* accepted and returned trimmed, in order, also when an element's raw length
\* exceeds 100 only because of surrounding whitespace.
C2_AcceptsWithinTrimmedBounds ==
    vout # NotRun /\ WithinTrimmedBounds(vin) =>
        /\ vout.ok
        /\ vout.value = [i \in 1..Len(vin) |-> strip(vin[i])]

\* The defects C3 names, in a raw list.
DefectiveList(v) ==
    \/ Len(v) = 0
    \/ Len(v) > MAX_LIST_LENGTH
    \/ \E i \in 1..Len(v) : Len(strip(v[i])) > MAX_STRING_LENGTH \/ strip(v[i]) = <<>>

Defective(body) == \E f \in DOMAIN body : DefectiveList(body[f])

\* C3: a request of which some field has 0 elements, more than 5 elements, an
\* element of trimmed length over 100 or an element empty after trimming is
\* rejected as a whole: it is answered 422, no WheelInput is made of it (no
\* field is normalized), no prompt is built and the agent is not called.
C3_DefectiveInputRejected ==
    \A s \in Slots :
        InFlight(s) /\ Defective(slots[s].body) =>
            /\ slots[s].pc = "Errored"
            /\ slots[s].status = 422
            /\ slots[s].errors # {}
            /\ slots[s].input_data = NoInput
            /\ slots[s].prompt = <<>>
            /\ slots[s].calls = 0

C3_Witness ==
    \E s \in Slots :
        /\ slots[s].status = 422
        /\ \E i \in 1..Len(slots[s].body.characters) :
              Len(strip(slots[s].body.characters[i])) > MAX_STRING_LENGTH

\* C4: for every client, at most 10 requests are admitted within any rolling
\* interval of 60 seconds (window holds the admissions of the last 60 seconds).
C4_RollingWindowBound ==
    \A c \in Clients : Len(window[c]) <= LIMIT_AMOUNT

\* C5: of a burst of 11 requests of one client within 60 seconds, from an empty
\* window, the first 10 are admitted and the 11th is rejected; and the first
\* request 60 seconds or more after the 1st one is admitted again.
C5_BurstOfEleven ==
    \A c \in Clients :
        /\ burst[c].fromEmpty /\ burst[c].n \in 1..LIMIT_AMOUNT => burst[c].last = "admitted"
        /\ burst[c].fromEmpty /\ burst[c].n = LIMIT_AMOUNT + 1 => burst[c].last = "rejected"
        /\ burst[c].n = 1 => burst[c].last = "admitted"

C5_Witness ==
    \E c \in Clients :
        /\ burst[c].afterFull
        /\ burst[c].n = 1
        /\ burst[c].start >= LIMIT_SECONDS
        /\ burst[c].last = "admitted"

\* C6: a failure of the agent ends the request in a 500 response whose detail is
\* the fixed "AI generation failed.", with nothing of the agent's error in it and
\* no pitch; a 200 response carries the MoviePitch the agent returned, with its
\* title, tagline and pitch.
C6_GenerationFailureIsOpaque ==
    \A s \in Slots :
        /\ slots[s].logged # "" =>
              /\ slots[s].pc = "Errored"
              /\ slots[s].status = 500
        /\ slots[s].status = 500 =>
              /\ slots[s].detail = "AI generation failed."
              /\ slots[s].detail \notin AgentErrors
              /\ slots[s].content = NoPitch
        /\ slots[s].status = 200 =>
              /\ slots[s].content \in MoviePitch
              /\ slots[s].content = slots[s].output
              /\ DOMAIN slots[s].content = {"title", "tagline", "pitch"}
              /\ slots[s].logged = ""

C6_Witness ==
    \E s \in Slots : slots[s].status = 500 /\ slots[s].logged \in AgentErrors

\* C7: the limiter's check and record are one step, so that under every
\* interleaving of the requests of a client the counter holds every hit of the
\* limiter's window, no more than 10 of them are admitted, and no more than 10
\* requests of the client are admitted within any 60 seconds.
C7_AtomicCheckAndRecord ==
    \A c \in Clients :
        /\ burst[c].start >= 0 /\ now < burst[c].start + LIMIT_SECONDS =>
              limiter.storage[c] = burst[c].n
        /\ burst[c].admitted <= LIMIT_AMOUNT
        /\ Len(window[c]) <= LIMIT_AMOUNT

\* C8: the limiter's state is partitioned by client: the count and expiry kept
\* for a client change only in the rate check of a request of that client (or
\* are dropped when the time of the expiry has come), whatever the requests of
\* the other clients, and a client is rejected only when its own burst has
\* exceeded 10.
C8_IdentitiesIndependent ==
    /\ [](\A c \in Clients : burst[c].last = "rejected" => burst[c].n > LIMIT_AMOUNT)
    /\ [][\A k \in DOMAIN limiter.storage :
            limiter'.storage[k] # limiter.storage[k]
            \/ limiter'.expirations[k] # limiter.expirations[k]
            => \/ \E s \in Slots :
                    /\ slots[s].client = k
                    /\ slots[s].pc = "Validated"
                    /\ slots'[s].pc \in {"RateChecked", "Errored"}
               \/ /\ slots' = slots
                  /\ now' >= limiter.expirations[k]
                  /\ limiter'.storage[k] = 0]_vars

C8_Witness ==
    \E s1, s2 \in Slots :
        /\ slots[s1].client = ClientA /\ slots[s1].status = 429
        /\ slots[s2].client = ClientB /\ slots[s2].pc = "RateChecked"

\* The order of the stages as C9 has it; awaiting the agent is part of PromptBuilt.
ClaimedOrder == <<"Received", "RateChecked", "Validated", "PromptBuilt", "Generated", "Responded">>

Stage(pc) == IF pc = "Generating" THEN "PromptBuilt" ELSE pc

ClaimedStep(s) ==
    LET a == Stage(slots[s].pc)
        b == Stage(slots'[s].pc)
    IN  \/ a = b
        \/ a = "Idle" /\ b = "Received"
        \/ \E i \in 1..(Len(ClaimedOrder) - 1) : a = ClaimedOrder[i] /\ b = ClaimedOrder[i + 1]
        \/ /\ b = "Errored"
           /\ a = "Received" => slots'[s].status = 429
           /\ a = "RateChecked" => slots'[s].status = 422
           /\ a \in {"Validated", "PromptBuilt", "Generated"} => slots'[s].status = 500
           /\ a \notin Terminal \cup {"Idle"}
        \/ a \in Terminal /\ b = "Idle"

\* C9: a request moves only forward through Received, RateChecked, Validated,
\* PromptBuilt, Generated, Responded, without skipping a stage; Errored is entered
\* with RateLimited from Received, ValidationError from RateChecked and
\* GenerationFailure from the later stages; a request in Responded or Errored
\* takes no further step.
C9_ClaimedStateMachine == [][\A s \in Slots : ClaimedStep(s)]_vars

\* C10: the agent is called at most once for a request, and only for a request
\* the limiter admitted; a failed call is not retried and gives one 500 response.
C10_NoRetry ==
    \A s \in Slots :
        /\ slots[s].calls <= 1
        /\ slots[s].calls = 1 => slots[s].checked /\ slots[s].status # 429
        /\ slots[s].logged # "" => slots[s].calls = 1 /\ slots[s].pc = "Errored"

C10_Witness ==
    \E s \in Slots : slots[s].status = 500 /\ slots[s].calls = 1 /\ slots[s].logged # ""

\* The elements of items, in order, with ", " between neighbours.
RECURSIVE CommaSeparated(_)
CommaSeparated(items) ==
    IF Len(items) = 1 THEN items[1]
    ELSE CommaSeparated(SubSeq(items, 1, Len(items) - 1)) \o <<",", " ">> \o items[Len(items)]

\* The prompt p is made of five fixed fragments with, between them and in this
\* order, the genres, the characters, the locations and the creatives of
\* input_data, each comma-separated; the last fragment is the instruction to
\* keep the plot coherent.
PromptOf(p, input_data) ==
    LET g == CommaSeparated(input_data.genres)
        c == CommaSeparated(input_data.characters)
        l == CommaSeparated(input_data.locations)
        k == CommaSeparated(input_data.creatives)
    IN  /\ Len(p) = 5 + Len(g) + Len(c) + Len(l) + Len(k)
        /\ SubSeq(p, 2, 1 + Len(g)) = g
        /\ SubSeq(p, 3 + Len(g), 2 + Len(g) + Len(c)) = c
        /\ SubSeq(p, 4 + Len(g) + Len(c), 3 + Len(g) + Len(c) + Len(l)) = l
        /\ SubSeq(p, 5 + Len(g) + Len(c) + Len(l), 4 + Len(g) + Len(c) + Len(l) + Len(k)) = k
        /\ p[Len(p)] = "\n\nEnsure the plot makes sense despite the chaotic mix."

\* C11: the prompt of a request is a function of its validated input alone:
\* the genres, characters, locations and creatives, in this order, each joined
\* with ", " in the order of the trimmed elements, and then the instruction to
\* keep the plot coherent; building it again for the same input, at any later
\* time, gives the same prompt.
C11_PromptIsPureJoin ==
    \A i \in 1..Len(vout) : PromptOf(vout[i], vin)

\* The prompt has been built twice, a window of the limiter apart, for an input
\* with two different genres and an element that holds ", " itself.
C11_Witness ==
    /\ Len(vout) = 2
    /\ now >= LIMIT_SECONDS
    /\ Len(vin.genres) = 2
    /\ vin.genres[1] # vin.genres[2]
    /\ vin.characters = <<<<"b", ",", " ", "c">>>>
    /\ vout[1] = vout[2]

\* C12: GET /health answers 200 with {"status": "healthy"} whenever it is
\* called, also for a caller whose quota on POST /generate-pitch is used up and
\* after failed requests, and a call leaves the storage of the limiter and the
\* requests in flight as they are.
C12_HealthAlwaysHealthy ==
    /\ [](health # NoHealth => health.status = 200 /\ health.body = [status |-> "healthy"])
    /\ [][health' # health => limiter' = limiter /\ slots' = slots /\ now' = now]_vars

\* Client 10.0.0.1 has had 200 from GET /health with its quota used up, while
\* a request of its own stands rejected by the limiter and another has failed
\* in generation.
C12_Witness ==
    /\ health.status = 200
    /\ health.client = ClientA
    /\ health.limited
    /\ \E s \in Slots : slots[s].status = 429 /\ slots[s].client = ClientA
    /\ \E s \in Slots : slots[s].status = 500

\* The failure that the rules of C13 give for a raw list ("": none): too many
\* items, else an empty list, else the defect of the first element that is too
\* long or empty once trimmed.
ClaimedReason(v) ==
    LET Offending == {i \in 1..Len(v) :
                        Len(strip(v[i])) > MAX_STRING_LENGTH \/ strip(v[i]) = <<>>}
    IN  IF Len(v) > MAX_LIST_LENGTH THEN ErrTooManyItems
        ELSE IF Len(v) = 0 THEN ErrEmptyList
        ELSE IF Offending = {} THEN ""
        ELSE IF Len(strip(v[Min(Offending)])) > MAX_STRING_LENGTH THEN ErrItemTooLong
        ELSE ErrEmptyItem

\* C13: the failure reported for a field is the one the rules give in order:
\* too many items, else empty list, else for the first offending element "too
\* long" exactly when its trimmed length exceeds 100 and "empty" exactly when
\* it is empty once trimmed; an element of 101 spaces is reported as empty.
C13_FailureReasonByTrimmedContent ==
    vout # NotRun /\ ClaimedReason(vin) # "" =>
        ~vout.ok /\ vout.error = ClaimedReason(vin)

\* C14: a request consumes one unit of its identity's quota when the limiter
\* admits it, and keeps it consumed whatever becomes of the request; a rejected
\* request consumes none; and a request answered 422 has been admitted, so its
\* unit is on the record of its identity when it is answered (ten requests
\* with invalid bodies use up the quota).
C14_AdmissionConsumesOneUnit ==
    [][\A s \in Slots :
          LET c == slots'[s].client
              Becomes(status) == slots[s].status # status /\ slots'[s].status = status
          IN  /\ slots[s].pc # "RateChecked" /\ slots'[s].pc = "RateChecked" =>
                    window'[c] = Append(window[c], now)
              /\ Becomes(429) => window'[c] = window[c]
              /\ Becomes(200) \/ Becomes(500) => window'[c] = window[c]
              /\ Becomes(422) =>
                    /\ window'[c] # <<>>
                    /\ window'[c][Len(window'[c])] = now]_vars

\* The next step of the request of connection s, whatever the body, the result
\* or the exception.
HandlerStep(s) ==
    \/ \E b \in Bodies : Validate(s, b)
    \/ RateCheck(s)
    \/ BuildPrompt(s)
    \/ CallAgent(s)
    \/ \E p \in MoviePitch : AgentReturn(s, p)
    \/ \E e \in AgentErrors : AgentFail(s, e)
    \/ Respond(s)

\* C15: a request suspended in the call of pitch_agent does not hold the event
\* loop, and every other request in flight can take its next step unless the
\* handler of a third request is running.
C15_SuspensionBlocksNobody ==
    \A s \in Slots :
        slots[s].pc = "Generating" =>
            /\ running # s
            /\ \A r \in Slots \ {s} :
                    slots[r].pc \notin {"Idle"} \cup Terminal /\ running \in {0, r} =>
                        ENABLED HandlerStep(r)

\* While the request of one connection is suspended in the call, the request
\* of the other has been validated, admitted and has its prompt built.
C15_Witness ==
    \E s \in Slots, r \in Slots :
        /\ s # r
        /\ slots[s].pc = "Generating"
        /\ slots[r].pc = "PromptBuilt"
        /\ running = r

\* The four lists have 1 to 5 elements each, and every element is 1 to 100
\* characters long with no whitespace at either end.
Normalized(input_data) ==
    \A i \in 1..Len(FieldNames) :
        LET v == input_data[FieldNames[i]]
        IN  /\ Len(v) \in 1..MAX_LIST_LENGTH
            /\ \A j \in 1..Len(v) :
                    /\ Len(v[j]) \in 1..MAX_STRING_LENGTH
                    /\ v[j][1] \notin Whitespace
                    /\ v[j][Len(v[j])] \notin Whitespace

\* C16: pitch_agent is only ever called for a request that the limiter has
\* admitted and whose body was valid, never for one answered 429 or 422, and
\* with a prompt made of the normalized lists alone.
C16_AgentCalledOnNormalizedInput ==
    \A s \in Slots :
        slots[s].calls >= 1 =>
            /\ slots[s].checked
            /\ slots[s].status \notin {422, 429}
            /\ slots[s].errors = {}
            /\ Normalized(slots[s].input_data)
            /\ PromptOf(slots[s].prompt, slots[s].input_data)

\* The call is under way for a request whose body had whitespace around its
\* elements.
C16_Witness ==
    \E s \in Slots :
        /\ slots[s].pc = "Generating"
        /\ slots[s].calls = 1
        /\ slots[s].body.genres[1] # slots[s].input_data.genres[1]

\* The field is missing, null, not an array, or an array with an element that
\* is not a string.
Malformed(j) == j.t # "array" \/ \E i \in 1..Len(j.a) : j.a[i].t # "string"

\* C17: validation never ends in a 500 or an unhandled error: a body whose
\* field is missing, null, not a sequence, or a sequence with a non-string
\* element is answered 422, and a bare string is not accepted as the list of
\* its characters.
C17_MalformedBodyIs422 ==
    vout # NotRun =>
        /\ vout.status # 500
        /\ Malformed(vin) => ~vout.ok /\ vout.status = 422

\* C18: validate_list is idempotent on what it accepts: applied to the list it
\* returned it accepts again and returns that list unchanged, with the same
\* elements in the same order.
C18_ValidateListIdempotent ==
    "again" \in DOMAIN vout =>
        /\ vout.again.ok
        /\ Len(vout.again.value) = Len(vout.value)
        /\ \A i \in 1..Len(vout.value) : vout.again.value[i] = vout.value[i]

\* A list of several elements with whitespace around them has been validated,
\* and its trimmed result validated again.
C18_Witness ==
    /\ "again" \in DOMAIN vout
    /\ vout.again.ok
    /\ Len(vin) >= 2
    /\ \A i \in 1..Len(vin) : vin[i] # vout.value[i]

====
